---------------------------- MODULE Spec2Model ----------------------------
(***************************************************************************)
(* AntiAd_Bot: the moderation handler of src/main.py and the scoring       *)
(* engine of src/moderation.py.                                            *)
(*                                                                         *)
(* Text is a sequence of Unicode code points (Python str).  None is the    *)
(* string "None"; identifiers (chat ids, user ids) are opaque strings,     *)
(* since the code only compares them for equality.  An absent text or      *)
(* caption is the empty sequence: the code reads both only through         *)
(* truthiness (`message.text or message.caption or ""`).                   *)
(***************************************************************************)
EXTENDS Integers, Sequences, FiniteSets, TLC

None == "None"

(***************************************************************************)
(* Bounds of the model.                                                    *)
(***************************************************************************)
\* messages delivered to the dispatcher over the life of the process, whose
\* handlers run concurrently
MaxMessages == 2
\* fragments concatenated into one text of the scoring workload
MaxFragments == 2
\* largest configured AD_SCORE_THRESHOLD (the smallest is 0)
MaxThreshold == 4

(***************************************************************************)
(* Characters: str.lower, str.isalpha, str.isupper and the regex classes   *)
(* \w, \s over the code points the workload uses (ASCII, Cyrillic, the     *)
(* dot look-alikes of URL_RE, pictographs).                                *)
(***************************************************************************)
IsLatinUpper(c) == c \in 65..90
IsLatinLower(c) == c \in 97..122
\* U+0410..U+042F, U+0401
IsCyrUpper(c) == c \in 1040..1071 \/ c = 1025
\* U+0430..U+044F, U+0451
IsCyrLower(c) == c \in 1072..1103 \/ c = 1105
IsDigit(c) == c \in 48..57

\* c.isupper()
isupper(c) == IsLatinUpper(c) \/ IsCyrUpper(c)
\* c.isalpha()
isalpha(c) == isupper(c) \/ IsLatinLower(c) \/ IsCyrLower(c)
\* regex \w (str pattern: Unicode alphanumerics and the underscore)
IsWord(c) == isalpha(c) \/ IsDigit(c) \/ c = 95
\* regex \s
IsSpace(c) == c \in {9, 10, 11, 12, 13, 32}

LowerChar(c) ==
    IF IsLatinUpper(c) \/ c \in 1040..1071 THEN c + 32
    ELSE IF c = 1025 THEN 1105
    ELSE c

\* text.lower()
lower(text) == [i \in 1..Len(text) |-> LowerChar(text[i])]

\* text[i:].startswith(p), i a 0-based offset
MatchAt(text, i, p) ==
    /\ i + Len(p) <= Len(text)
    /\ \A k \in 1..Len(p) : text[i + k] = p[k]

\* `p in text`
Contains(text, p) == \E i \in 0..(Len(text) - Len(p)) : MatchAt(text, i, p)

\* prefix.startswith
StartsWith(text, p) == MatchAt(text, 0, p)

(***************************************************************************)
(* The fixed phrase lists of moderation.py.                                *)
(***************************************************************************)
\* "в лс", "в личку", "в личные", "пишите", "обращайтесь", "напишите", "свяжитесь"
CONTACT_PHRASES ==
    << <<1074, 32, 1083, 1089>>,
       <<1074, 32, 1083, 1080, 1095, 1082, 1091>>,
       <<1074, 32, 1083, 1080, 1095, 1085, 1099, 1077>>,
       <<1087, 1080, 1096, 1080, 1090, 1077>>,
       <<1086, 1073, 1088, 1072, 1097, 1072, 1081, 1090, 1077, 1089, 1100>>,
       <<1085, 1072, 1087, 1080, 1096, 1080, 1090, 1077>>,
       <<1089, 1074, 1103, 1078, 1080, 1090, 1077, 1089, 1100>> >>

\* "подпиш", "подписывай", "заходи", "вступай", "канал", "чат", "группа"
TRIGGERS_STRONG ==
    << <<1087, 1086, 1076, 1087, 1080, 1096>>,
       <<1087, 1086, 1076, 1087, 1080, 1089, 1099, 1074, 1072, 1081>>,
       <<1079, 1072, 1093, 1086, 1076, 1080>>,
       <<1074, 1089, 1090, 1091, 1087, 1072, 1081>>,
       <<1082, 1072, 1085, 1072, 1083>>,
       <<1095, 1072, 1090>>,
       <<1075, 1088, 1091, 1087, 1087, 1072>> >>

\* "скид", "акц", "промокод", "заработ", "доход", "инвест", "крипт"
TRIGGERS_MONEY ==
    << <<1089, 1082, 1080, 1076>>,
       <<1072, 1082, 1094>>,
       <<1087, 1088, 1086, 1084, 1086, 1082, 1086, 1076>>,
       <<1079, 1072, 1088, 1072, 1073, 1086, 1090>>,
       <<1076, 1086, 1093, 1086, 1076>>,
       <<1080, 1085, 1074, 1077, 1089, 1090>>,
       <<1082, 1088, 1080, 1087, 1090>> >>

\* "помогу вам", "помогу с", "могу помочь", "решу проблему", "разберусь",
\* "занимаюсь", "оказываю услуги", "есть опыт", "возьмусь",
\* "сделаю под ключ", "готов помочь"
SERVICE_TRIGGERS ==
    << <<1087, 1086, 1084, 1086, 1075, 1091, 32, 1074, 1072, 1084>>,
       <<1087, 1086, 1084, 1086, 1075, 1091, 32, 1089>>,
       <<1084, 1086, 1075, 1091, 32, 1087, 1086, 1084, 1086, 1095, 1100>>,
       <<1088, 1077, 1096, 1091, 32, 1087, 1088, 1086, 1073, 1083, 1077, 1084, 1091>>,
       <<1088, 1072, 1079, 1073, 1077, 1088, 1091, 1089, 1100>>,
       <<1079, 1072, 1085, 1080, 1084, 1072, 1102, 1089, 1100>>,
       <<1086, 1082, 1072, 1079, 1099, 1074, 1072, 1102, 32, 1091, 1089, 1083, 1091, 1075, 1080>>,
       <<1077, 1089, 1090, 1100, 32, 1086, 1087, 1099, 1090>>,
       <<1074, 1086, 1079, 1100, 1084, 1091, 1089, 1100>>,
       <<1089, 1076, 1077, 1083, 1072, 1102, 32, 1087, 1086, 1076, 32, 1082, 1083, 1102, 1095>>,
       <<1075, 1086, 1090, 1086, 1074, 32, 1087, 1086, 1084, 1086, 1095, 1100>> >>

(***************************************************************************)
(* URL_RE, as re.search decides it: some offset i with \b, one of the      *)
(* alternatives from i to some offset j, and \b at j.  Backtracking over   *)
(* the greedy quantifiers makes every admissible j a candidate.            *)
(***************************************************************************)
\* \b at offset pos (between text[pos] and text[pos+1], 1-based characters)
WordBoundary(text, pos) ==
    (pos > 0 /\ IsWord(text[pos])) # (pos < Len(text) /\ IsWord(text[pos + 1]))

\* the separators of  t(?:\.|[ ]|[\[\(]?\.\]?|[․·∙•])?me/  : "", ".", " ",
\* "[.", "(.", ".]", "[.]", "(.]", and the four dot look-alikes
TME_SEPARATORS ==
    { <<>>, <<46>>, <<32>>, <<91, 46>>, <<40, 46>>, <<46, 93>>,
      <<91, 46, 93>>, <<40, 46, 93>>, <<8228>>, <<183>>, <<8729>>, <<8226>> }

\* the literal heads of the alternatives that end in [^\s]+ :
\* http://  https://  www.  t<sep>me/  telegram.me/  joinchat/
URL_HEADS ==
    { <<104, 116, 116, 112, 58, 47, 47>>,
      <<104, 116, 116, 112, 115, 58, 47, 47>>,
      <<119, 119, 119, 46>>,
      <<116, 101, 108, 101, 103, 114, 97, 109, 46, 109, 101, 47>>,
      <<106, 111, 105, 110, 99, 104, 97, 116, 47>> }
    \cup { <<116>> \o s \o <<109, 101, 47>> : s \in TME_SEPARATORS }

\* [A-Za-z0-9_]
IsHandleChar(c) == IsLatinUpper(c) \/ IsLatinLower(c) \/ IsDigit(c) \/ c = 95

\* head[^\s]+ matches text[i:j]
UrlAltMatches(text, i, j) ==
    \E h \in URL_HEADS :
        /\ MatchAt(text, i, h)
        /\ j > i + Len(h)
        /\ \A k \in (i + Len(h) + 1)..j : ~IsSpace(text[k])

\* @[A-Za-z0-9_]{4,} matches text[i:j]
HandleAltMatches(text, i, j) ==
    /\ i < Len(text)
    /\ text[i + 1] = 64
    /\ j >= i + 5
    /\ \A k \in (i + 2)..j : IsHandleChar(text[k])

\* URL_RE.search(text) is not None
URL_RE_search(text) ==
    \E i \in 0..Len(text) :
        /\ WordBoundary(text, i)
        /\ \E j \in (i + 1)..Len(text) :
              /\ WordBoundary(text, j)
              /\ (UrlAltMatches(text, i, j) \/ HandleAltMatches(text, i, j))

(***************************************************************************)
(* moderation.py                                                           *)
(***************************************************************************)
\* _extract_text_and_entities: body text first, else caption, else ""
_extract_text_and_entities(message) ==
    IF message.text # <<>> THEN <<message.text, message.entities>>
    ELSE IF message.caption # <<>> THEN <<message.caption, message.caption_entities>>
    ELSE << <<>>, <<>> >>

HasLinkEntity(entities) ==
    \E k \in 1..Len(entities) : entities[k] \in {"url", "text_link", "mention"}

HasContactPhrase(text) ==
    \E k \in 1..Len(CONTACT_PHRASES) : Contains(text, CONTACT_PHRASES[k])

_has_link_or_contact(text, entities) ==
    \/ URL_RE_search(text)
    \/ HasLinkEntity(entities)
    \/ HasContactPhrase(text)

\* sum(1 for p in phrases if p in text)
_count_hits(text, phrases) ==
    Cardinality({k \in 1..Len(phrases) : Contains(text, phrases[k])})

\* EMOJI_RE = [\U0001F300-\U0001FAFF]
IsEmoji(c) == c \in 127744..129791

emoji_count(text) == Cardinality({i \in 1..Len(text) : IsEmoji(text[i])})

_lots_of_emoji_or_caps(text) ==
    LET letters == {i \in 1..Len(text) : isalpha(text[i])}
        upper_letters == {i \in letters : isupper(text[i])}
    IN  IF letters = {} THEN FALSE
        ELSE \/ emoji_count(text) >= 4
             \/ 10 * Cardinality(upper_letters) >= 6 * Cardinality(letters)

\* faulty variant: the weight applied for every keyword found
StrongPartPerHit(strong_hits) ==
    IF strong_hits > 0
    THEN [score |-> 2 * strong_hits, reasons |-> << <<"strong_ads", strong_hits>> >>]
    ELSE [score |-> 0, reasons |-> <<>>]

StrongPart(strong_hits) ==
    IF strong_hits > 0
    THEN [score |-> 2, reasons |-> << <<"strong_ads", strong_hits>> >>]
    ELSE [score |-> 0, reasons |-> <<>>]

MoneyPart(money_hits) ==
    IF money_hits > 0
    THEN [score |-> 1, reasons |-> << <<"money_ads", money_hits>> >>]
    ELSE [score |-> 0, reasons |-> <<>>]

\* faulty variant: the category counted without a link or contact
ServiceCountsWithoutContact(service_hits, has_contact) == service_hits > 0

ServiceCounts(service_hits, has_contact) == service_hits > 0 /\ has_contact

ServicePart(service_hits, has_contact) ==
    IF ServiceCounts(service_hits, has_contact)
    THEN [score |-> 2, reasons |-> << <<"service_offer", service_hits>> >>]
    ELSE [score |-> 0, reasons |-> <<>>]

StylePart(text) ==
    IF _lots_of_emoji_or_caps(text)
    THEN [score |-> 1, reasons |-> << <<"emoji_or_caps">> >>]
    ELSE [score |-> 0, reasons |-> <<>>]

\* faulty variant: the boundary excluded
ShouldDeleteStrictly(score, threshold) == score > threshold

ShouldDelete(score, threshold) == score >= threshold

\* decide(message, threshold) -> ModerationDecision
decide(message, threshold) ==
    LET te == _extract_text_and_entities(message)
        text == te[1]
        entities == te[2]
        text_l == lower(text)
        has_contact == _has_link_or_contact(text_l, entities)
        s == StrongPart(_count_hits(text_l, TRIGGERS_STRONG))
        m == MoneyPart(_count_hits(text_l, TRIGGERS_MONEY))
        v == ServicePart(_count_hits(text_l, SERVICE_TRIGGERS), has_contact)
        y == StylePart(text)
        score == s.score + m.score + v.score + y.score
    IN  [should_delete |-> ShouldDelete(score, threshold),
         score |-> score,
         reasons |-> s.reasons \o m.reasons \o v.reasons \o y.reasons]

(***************************************************************************)
(* config.py.  An optional value that is not a string (an environment      *)
(* value is a code-point sequence, a raised exception has no value) is     *)
(* Unset or Some(v).                                                       *)
(***************************************************************************)
Unset == <<>>
Some(v) == <<v>>

\* value.strip()
RECURSIVE strip(_)
strip(value) ==
    IF value = <<>> THEN value
    ELSE IF IsSpace(Head(value)) THEN strip(Tail(value))
    ELSE IF IsSpace(value[Len(value)]) THEN strip(SubSeq(value, 1, Len(value) - 1))
    ELSE value

\* "1", "true", "yes", "y", "on"
TRUE_WORDS ==
    { <<49>>, <<116, 114, 117, 101>>, <<121, 101, 115>>, <<121>>, <<111, 110>> }

_as_bool(value, default) ==
    IF value = Unset THEN default ELSE lower(strip(value[1])) \in TRUE_WORDS

\* int(value) accepts value: decimal digits, surrounding blanks allowed
\* (signs and digit separators are outside the inputs drawn)
IsDecimal(value) ==
    LET v == strip(value) IN v # <<>> /\ \A k \in 1..Len(v) : IsDigit(v[k])

RECURSIVE DecimalValue(_)
DecimalValue(digits) ==
    IF digits = <<>> THEN 0
    ELSE 10 * DecimalValue(SubSeq(digits, 1, Len(digits) - 1)) + (digits[Len(digits)] - 48)

\* _as_int: the default for an unset or blank value, else int(value), which
\* raises ValueError (Unset here) on anything that is no number
_as_int(value, default) ==
    IF value = Unset THEN Some(default)
    ELSE IF strip(value[1]) = <<>> THEN Some(default)
    ELSE IF IsDecimal(value[1]) THEN Some(DecimalValue(strip(value[1])))
    ELSE Unset

\* load_config: Some(Config), or Unset when it raises (BOT_TOKEN unset or
\* empty, or an AD_SCORE_THRESHOLD that int() rejects)
load_config(env) ==
    LET ad_score_threshold == _as_int(env.AD_SCORE_THRESHOLD, 2)
    IN  IF env.BOT_TOKEN = Unset \/ env.BOT_TOKEN = Some(<<>>) THEN Unset
        ELSE IF ad_score_threshold = Unset THEN Unset
        ELSE Some([target_chat_id |-> env.TARGET_CHAT_ID,
                   delete_channel_messages |->
                       _as_bool(env.DELETE_CHANNEL_MESSAGES, TRUE),
                   ad_score_threshold |-> ad_score_threshold[1]])

(***************************************************************************)
(* main.py: the pure parts.                                                *)
(***************************************************************************)
\* "image/"
IMAGE_PREFIX == <<105, 109, 97, 103, 101, 47>>

\* faulty variant: the MIME type compared without .lower()
_detect_forbidden_media_kind_case_sensitive(message) ==
    IF message.content_type = "photo" THEN "photo"
    ELSE IF message.content_type = "video" THEN "video"
    ELSE IF message.content_type = "document" /\ message.document # Unset
    THEN IF StartsWith(message.document[1].mime_type, IMAGE_PREFIX)
         THEN "image_document"
         ELSE "document"
    ELSE None

_detect_forbidden_media_kind(message) ==
    IF message.content_type = "photo" THEN "photo"
    ELSE IF message.content_type = "video" THEN "video"
    ELSE IF message.content_type = "document" /\ message.document # Unset
    THEN IF StartsWith(lower(message.document[1].mime_type), IMAGE_PREFIX)
         THEN "image_document"
         ELSE "document"
    ELSE None

\* faulty variant: fail-open, a failed lookup taken for an administrator
_is_admin_fail_open(outcome) ==
    IF outcome = "error" THEN TRUE ELSE outcome \in {"administrator", "creator"}

\* _is_admin on the outcome of bot.get_chat_member: a status, or "error" when
\* the lookup raises
_is_admin(outcome) ==
    IF outcome = "error" THEN FALSE ELSE outcome \in {"administrator", "creator"}

\* faulty variant: the delete right not looked at
check_bot_can_moderate_status_only(outcome) ==
    IF outcome = Unset THEN FALSE
    ELSE outcome[1].status \in {"administrator", "creator"}

\* check_bot_can_moderate on the outcome of the bot's own membership lookup:
\* Unset when get_chat_member raises
check_bot_can_moderate(outcome) ==
    IF outcome = Unset THEN FALSE
    ELSE IF outcome[1].status \notin {"administrator", "creator"}
            \/ outcome[1].can_delete_messages # "True"
    THEN FALSE
    ELSE TRUE

\* faulty variant: no scope filter
InScopeAlways(message, config) == TRUE

\* line 145: the scope filter lets the message through
InScope(message, config) ==
    ~(config.target_chat_id # None /\ message.chat_id # config.target_chat_id)

\* faulty variant: any sender chat taken for a channel
ChannelSenderMatchesAnyType(message, config) ==
    /\ config.delete_channel_messages
    /\ message.sender_chat # None

\* faulty variant: DELETE_CHANNEL_MESSAGES not looked at
ChannelSenderMatchesFlagIgnored(message, config) ==
    /\ message.sender_chat # None
    /\ message.sender_chat = "channel"

\* lines 164-165: the sender-identity stage matches
ChannelSenderMatches(message, config) ==
    /\ config.delete_channel_messages
    /\ message.sender_chat # None
    /\ message.sender_chat = "channel"

\* the text of an audit line (lines 31-33)
AuditText(message) ==
    LET raw == IF message.text # <<>> THEN message.text ELSE message.caption
        flat == strip([k \in 1..Len(raw) |-> IF raw[k] = 10 THEN 32 ELSE raw[k]])
    IN  IF Len(flat) > 500 THEN SubSeq(flat, 1, 500) \o <<46, 46, 46>> ELSE flat

\* the line write_moderation_log appends (the timestamp left out)
AuditLine(i, message, reason, extra) ==
    [msg_id |-> i,
     chat_id |-> message.chat_id,
     user_id |-> message.from_user,
     sender_chat_type |-> message.sender_chat,
     reason |-> reason,
     extra |-> extra,
     text |-> AuditText(message)]

(***************************************************************************)
(* The steps a handler takes between two suspension points, in order.      *)
(* write: one write_moderation_log call, ok iff the append succeeded (a    *)
(* failure is swallowed, lines 45-46).                                     *)
(***************************************************************************)
WriteStep(reason, extra, writable) ==
    [ev |-> "write", arg |-> <<reason, extra, writable>>]

DeleteStep(reason) == [ev |-> "call_delete", arg |-> reason]

\* faulty variant: the record written after the delete call
AdScoreStageDeleteFirst(message, config, writable) ==
    LET d == decide(message, config.ad_score_threshold)
    IN  <<[ev |-> "decide", arg |-> <<d.score, d.reasons, d.should_delete>>]>>
        \o (IF d.should_delete
            THEN <<DeleteStep(<<"ad_score", d.score>>),
                   WriteStep("ad_detected", <<"score", d.score, d.reasons>>, writable)>>
            ELSE <<>>)

\* lines 170-176
AdScoreStage(message, config, writable) ==
    LET d == decide(message, config.ad_score_threshold)
    IN  <<[ev |-> "decide", arg |-> <<d.score, d.reasons, d.should_delete>>]>>
        \o (IF d.should_delete
            THEN <<WriteStep("ad_detected", <<"score", d.score, d.reasons>>, writable),
                   DeleteStep(<<"ad_score", d.score>>)>>
            ELSE <<>>)

\* faulty variant: the message scored before the sender chat is looked at
SenderIdentityStageAfterScoring(message, config, writable) ==
    LET scored == AdScoreStage(message, config, writable)
    IN  IF scored[Len(scored)].ev = "call_delete" THEN scored
        ELSE IF ChannelSenderMatches(message, config)
        THEN scored \o <<WriteStep("channel_sender", <<>>, writable),
                         DeleteStep(<<"channel_sender">>)>>
        ELSE scored

\* lines 163-176
SenderIdentityStage(message, config, writable) ==
    IF ChannelSenderMatches(message, config)
    THEN <<WriteStep("channel_sender", <<>>, writable),
           DeleteStep(<<"channel_sender">>)>>
    ELSE AdScoreStage(message, config, writable)

\* faulty variant: the `not` of line 158 left out
AfterIsAdminInverted(message, config, writable, is_admin) ==
    LET forbidden_kind == _detect_forbidden_media_kind(message)
    IN  IF is_admin
        THEN <<WriteStep("media_non_admin", <<"type", forbidden_kind>>, writable),
               DeleteStep(<<"media_non_admin", forbidden_kind>>)>>
        ELSE SenderIdentityStage(message, config, writable)

\* lines 158-161 and on, once _is_admin has answered
AfterIsAdmin(message, config, writable, is_admin) ==
    LET forbidden_kind == _detect_forbidden_media_kind(message)
    IN  IF ~is_admin
        THEN <<WriteStep("media_non_admin", <<"type", forbidden_kind>>, writable),
               DeleteStep(<<"media_non_admin", forbidden_kind>>)>>
        ELSE SenderIdentityStage(message, config, writable)

\* faulty variant: write_moderation_log without its try/except, a failed
\* append ending the handler
MediaStageWriteRaises(message, config, writable) ==
    LET forbidden_kind == _detect_forbidden_media_kind(message)
        detected == IF forbidden_kind # None
                    THEN <<WriteStep("media_detected", <<"type", forbidden_kind>>, writable)>>
                    ELSE <<>>
    IN  IF forbidden_kind # None /\ ~writable THEN detected
        ELSE IF forbidden_kind # None /\ message.from_user # None
        THEN detected \o <<[ev |-> "call_get_chat_member",
                            arg |-> <<message.chat_id, message.from_user>>]>>
        ELSE detected \o SenderIdentityStage(message, config, writable)

\* lines 152-158: the media stage up to the membership lookup
MediaStage(message, config, writable) ==
    LET forbidden_kind == _detect_forbidden_media_kind(message)
        detected == IF forbidden_kind # None
                    THEN <<WriteStep("media_detected", <<"type", forbidden_kind>>, writable)>>
                    ELSE <<>>
    IN  IF forbidden_kind # None /\ message.from_user # None
        THEN detected \o <<[ev |-> "call_get_chat_member",
                            arg |-> <<message.chat_id, message.from_user>>]>>
        ELSE detected \o SenderIdentityStage(message, config, writable)

\* lines 144-158: from the entry of the handler to its first suspension point
EntrySteps(message, config, enabled, writable) ==
    IF ~InScope(message, config) THEN <<>>
    ELSE IF ~enabled THEN <<>>
    ELSE MediaStage(message, config, writable)

\* where the handler is after these steps
PcAfter(steps) ==
    IF steps = <<>> THEN "done"
    ELSE IF steps[Len(steps)].ev = "call_get_chat_member" THEN "await_get_chat_member"
    ELSE IF steps[Len(steps)].ev = "call_delete" THEN "await_delete"
    ELSE "done"

\* the steps as trace events of handler i
Events(i, steps) ==
    [k \in 1..Len(steps) |-> [ev |-> steps[k].ev, msg |-> i, arg |-> steps[k].arg]]

\* faulty variant: a line written by two appends, the text apart from the rest
RECURSIVE LinesInTwoAppends(_, _, _)
LinesInTwoAppends(i, message, steps) ==
    IF steps = <<>> THEN <<>>
    ELSE LET s == Head(steps)
             line == AuditLine(i, message, s.arg[1], s.arg[2])
         IN  (IF s.ev = "write" /\ s.arg[3]
              THEN <<[line EXCEPT !.text = <<>>],
                     [line EXCEPT !.reason = None, !.extra = <<>>]>>
              ELSE <<>>) \o LinesInTwoAppends(i, message, Tail(steps))

\* the lines the steps append to the audit file
RECURSIVE Lines(_, _, _)
Lines(i, message, steps) ==
    IF steps = <<>> THEN <<>>
    ELSE LET s == Head(steps)
         IN  (IF s.ev = "write" /\ s.arg[3]
              THEN <<AuditLine(i, message, s.arg[1], s.arg[2])>>
              ELSE <<>>) \o Lines(i, message, Tail(steps))

\* safe_delete's logger records for the outcome of message.delete()
DeleteLog(outcome) ==
    CASE outcome = "ok" -> <<"info">>
      [] outcome = "TelegramForbiddenError" -> <<"warning">>
      [] outcome = "TelegramBadRequest" -> <<"warning", "warning">>
      [] OTHER -> <<"exception">>

\* safe_delete's return value
safe_delete(outcome) == outcome = "ok"

(***************************************************************************)
(* The inputs: environments, messages, outcomes of the transport.          *)
(***************************************************************************)
TargetChat == "chat:-1001"
OtherChat == "chat:-1002"
SomeUser == "user:42"

\* "false", " True ", "n"
RAW_FALSE == <<102, 97, 108, 115, 101>>
RAW_TRUE == <<32, 84, 114, 117, 101, 32>>
RAW_NO_NUMBER == <<110>>

\* str(n) for a one-digit n
Digit(n) == <<48 + n>>

\* a message of the given content: the body is the text of a text message and
\* the caption of a media message
Message(chat_id, content, from_user, sender_chat, body, entities) ==
    [chat_id |-> chat_id,
     content_type |-> content.content_type,
     document |-> content.document,
     from_user |-> from_user,
     sender_chat |-> sender_chat,
     text |-> IF content.content_type = "text" THEN body ELSE <<>>,
     entities |-> IF content.content_type = "text" THEN entities ELSE <<>>,
     caption |-> IF content.content_type = "text" THEN <<>> ELSE body,
     caption_entities |-> IF content.content_type = "text" THEN <<>> ELSE entities]

TextContent == [content_type |-> "text", document |-> Unset]
PhotoContent == [content_type |-> "photo", document |-> Unset]
VideoContent == [content_type |-> "video", document |-> Unset]
StickerContent == [content_type |-> "sticker", document |-> Unset]
\* a document of MIME type application/pdf
PdfContent ==
    [content_type |-> "document",
     document |-> Some([mime_type |->
         <<97, 112, 112, 108, 105, 99, 97, 116, 105, 111, 110, 47, 112, 100, 102>>])]
\* a document of MIME type Image/PNG
ImageContent ==
    [content_type |-> "document",
     document |-> Some([mime_type |-> <<73, 109, 97, 103, 101, 47, 80, 78, 71>>])]
\* a document with no MIME type
PlainDocContent ==
    [content_type |-> "document", document |-> Some([mime_type |-> <<>>])]

\* "привет" (score 0), "скидка" (score 1), "канал" (score 2),
\* "КАНАЛ скидка" (score 4)
PRIVET == <<1087, 1088, 1080, 1074, 1077, 1090>>
SKIDKA == <<1089, 1082, 1080, 1076, 1082, 1072>>
KANAL == <<1082, 1072, 1085, 1072, 1083>>
KANAL_SKIDKA == <<1050, 1040, 1053, 1040, 1051, 32, 1089, 1082, 1080, 1076, 1082, 1072>>

\* what bot.get_chat_member answers for a user: a status, or it raises
MemberOutcomes == {"administrator", "creator", "member", "error"}

\* what bot.get_chat_member answers for the bot itself: a member, or it raises
BotMemberOutcomes ==
    { Some([status |-> "administrator", can_delete_messages |-> "True"]),
      Some([status |-> "administrator", can_delete_messages |-> "False"]),
      Some([status |-> "creator", can_delete_messages |-> None]),
      Some([status |-> "member", can_delete_messages |-> None]),
      Unset }

\* how message.delete() ends
DeleteOutcomes == {"ok", "TelegramForbiddenError", "TelegramBadRequest", "Exception"}

(***************************************************************************)
(* The state.                                                              *)
(***************************************************************************)
VARIABLES
    cfg,                \* load_config()'s result: Some(Config), Unset if it raised
    main_pc,            \* where main() is
    moderation_enabled, \* the flag of line 139
    handlers,           \* handlers[i]: the i-th invocation of handle_group_message
    audit_log,          \* the lines of moderation_log.txt
    trace,              \* every call, return, write and logger record, in order
    log_writable        \* whether moderation_log.txt can be appended to

vars == <<cfg, main_pc, moderation_enabled, handlers, audit_log, trace, log_writable>>

Cfg == cfg[1]

\* main() up to line 140
InitOf(envs, writable) ==
    \E env \in envs :
        /\ cfg = load_config(env)
        /\ main_pc = IF cfg = Unset THEN "raised"
                     ELSE IF Cfg.target_chat_id # None THEN "get_me"
                     ELSE "start_polling"
        /\ moderation_enabled = TRUE
        /\ handlers = <<>>
        /\ audit_log = <<>>
        /\ trace = <<>>
        /\ log_writable \in writable

(***************************************************************************)
(* main(): the startup capability check, lines 140-141 and 94-123.         *)
(***************************************************************************)
\* line 100: bot.get_me() returns, or raises (the except of line 121)
check_get_me ==
    /\ main_pc = "get_me"
    /\ \E ok \in BOOLEAN :
          /\ main_pc' = IF ok THEN "get_chat_member" ELSE "start_polling"
          /\ moderation_enabled' = IF ok THEN moderation_enabled ELSE FALSE
          /\ trace' = Append(trace, [ev |-> "get_me", msg |-> 0, arg |-> <<ok>>])
    /\ UNCHANGED <<cfg, handlers, audit_log, log_writable>>

\* lines 101-123
check_get_chat_member ==
    /\ main_pc = "get_chat_member"
    /\ \E outcome \in BotMemberOutcomes :
          /\ moderation_enabled' = check_bot_can_moderate(outcome)
          /\ trace' = Append(trace, [ev |-> "bot_member", msg |-> 0, arg |-> outcome])
    /\ main_pc' = "start_polling"
    /\ UNCHANGED <<cfg, handlers, audit_log, log_writable>>

\* lines 178-185
start_polling ==
    /\ main_pc = "start_polling"
    /\ main_pc' = "polling"
    /\ UNCHANGED <<cfg, moderation_enabled, handlers, audit_log, trace, log_writable>>

(***************************************************************************)
(* handle_group_message.  The dispatcher runs a handler per message as a   *)
(* task of the event loop: a handler runs without interruption between     *)
(* two awaits, and handlers interleave at the awaits of get_chat_member    *)
(* and message.delete.                                                     *)
(***************************************************************************)
\* a message of a group or supergroup arrives (the filter of line 143) and its
\* handler runs to its first await, or to its end
Dispatch(message) ==
    LET i == Len(handlers) + 1
        steps == EntrySteps(message, Cfg, moderation_enabled, log_writable)
    IN  /\ main_pc = "polling"
        /\ handlers' = Append(handlers, [message |-> message, pc |-> PcAfter(steps)])
        /\ audit_log' = audit_log \o Lines(i, message, steps)
        /\ trace' = trace \o Events(i, steps)
        /\ UNCHANGED <<cfg, main_pc, moderation_enabled, log_writable>>

\* line 158: the membership lookup of _is_admin returns or raises, and the
\* handler runs on to the delete call or to its end
resume_is_admin ==
    \E i \in 1..Len(handlers), outcome \in MemberOutcomes :
        LET message == handlers[i].message
            steps == AfterIsAdmin(message, Cfg, log_writable, _is_admin(outcome))
        IN  /\ handlers[i].pc = "await_get_chat_member"
            /\ handlers' = [handlers EXCEPT ![i].pc = PcAfter(steps)]
            /\ audit_log' = audit_log \o Lines(i, message, steps)
            /\ trace' = Append(trace, [ev |-> "ret_get_chat_member", msg |-> i,
                                       arg |-> outcome])
                        \o Events(i, steps)
            /\ UNCHANGED <<cfg, main_pc, moderation_enabled, log_writable>>

\* faulty variant: a delete that failed is tried again
resume_safe_delete_retrying ==
    \E i \in 1..Len(handlers), outcome \in DeleteOutcomes :
        /\ handlers[i].pc = "await_delete"
        /\ handlers' = [handlers EXCEPT
                           ![i].pc = IF outcome = "ok" THEN "done" ELSE "await_delete"]
        /\ trace' = Append(trace, [ev |-> "ret_delete", msg |-> i,
                                   arg |-> <<outcome, safe_delete(outcome), DeleteLog(outcome)>>])
                    \o (IF outcome = "ok" THEN <<>>
                        ELSE <<[ev |-> "call_delete", msg |-> i, arg |-> <<"retry">>]>>)
        /\ UNCHANGED <<cfg, main_pc, moderation_enabled, audit_log, log_writable>>

\* lines 51-69: message.delete() returns or raises; safe_delete logs it and the
\* handler, which ignores the result, returns
resume_safe_delete ==
    \E i \in 1..Len(handlers), outcome \in DeleteOutcomes :
        /\ handlers[i].pc = "await_delete"
        /\ handlers' = [handlers EXCEPT ![i].pc = "done"]
        /\ trace' = Append(trace, [ev |-> "ret_delete", msg |-> i,
                                   arg |-> <<outcome, safe_delete(outcome), DeleteLog(outcome)>>])
        /\ UNCHANGED <<cfg, main_pc, moderation_enabled, audit_log, log_writable>>

(***************************************************************************)
(* Spec: the process with MaxMessages messages handled concurrently.       *)
(***************************************************************************)
Envs ==
    [BOT_TOKEN : {Unset, Some(<<120>>)},
     TARGET_CHAT_ID : {None, TargetChat},
     DELETE_CHANNEL_MESSAGES : {Unset, Some(RAW_FALSE)},
     AD_SCORE_THRESHOLD : {Unset}]

Messages ==
    { Message(c, k, u, sc, KANAL, <<>>) :
        c \in {TargetChat, OtherChat}, k \in {TextContent, PhotoContent},
        u \in {None, SomeUser}, sc \in {None, "channel"} }

Init == InitOf(Envs, BOOLEAN)

handle_group_message ==
    /\ Len(handlers) < MaxMessages
    /\ \E message \in Messages : Dispatch(message)

Next ==
    \/ check_get_me
    \/ check_get_chat_member
    \/ start_polling
    \/ handle_group_message
    \/ resume_is_admin
    \/ resume_safe_delete

Spec == Init /\ [][Next]_vars

(***************************************************************************)
(* SpecMessage: the process handling one message, of every kind, under     *)
(* every configuration.                                                    *)
(***************************************************************************)
MessageEnvs ==
    [BOT_TOKEN : {Unset, Some(<<>>), Some(<<120>>)},
     TARGET_CHAT_ID : {None, TargetChat},
     DELETE_CHANNEL_MESSAGES : {Unset, Some(RAW_FALSE), Some(RAW_TRUE)},
     AD_SCORE_THRESHOLD : {Unset, Some(<<32>>), Some(Digit(3)), Some(RAW_NO_NUMBER)}]

Contents ==
    {TextContent, StickerContent, PhotoContent, VideoContent, PdfContent,
     ImageContent, PlainDocContent}

AllMessages ==
    { Message(c, k, u, sc, b, <<>>) :
        c \in {TargetChat, OtherChat}, k \in Contents, u \in {None, SomeUser},
        sc \in {None, "channel", "supergroup"}, b \in {PRIVET, KANAL, KANAL_SKIDKA} }

InitMessage == InitOf(MessageEnvs, BOOLEAN)

handle_one_message ==
    /\ handlers = <<>>
    /\ \E message \in AllMessages : Dispatch(message)

NextMessage ==
    \/ check_get_me
    \/ check_get_chat_member
    \/ start_polling
    \/ handle_one_message
    \/ resume_is_admin
    \/ resume_safe_delete

SpecMessage == InitMessage /\ [][NextMessage]_vars

(***************************************************************************)
(* SpecScoring: the process handling one in-scope message whose text (or   *)
(* caption) is put together from fragments, under every threshold.         *)
(***************************************************************************)
\* "канал", "ЧАТ", "АКЦИЯ", "помогу с", "в лс", "t.me/x", "@abcd",
\* two pictographs (U+1F525), "привет", "ЧАТ АКЦИЯ ПОМОГУ С"
Fragments ==
    { <<1082, 1072, 1085, 1072, 1083>>,
      <<1063, 1040, 1058>>,
      <<1040, 1050, 1062, 1048, 1071>>,
      <<1087, 1086, 1084, 1086, 1075, 1091, 32, 1089>>,
      <<1074, 32, 1083, 1089>>,
      <<116, 46, 109, 101, 47, 120>>,
      <<64, 97, 98, 99, 100>>,
      <<128293, 128293>>,
      PRIVET,
      <<1063, 1040, 1058, 32, 1040, 1050, 1062, 1048, 1071, 32,
        1055, 1054, 1052, 1054, 1043, 1059, 32, 1057>> }

\* the texts of at most n fragments
RECURSIVE Texts(_)
Texts(n) ==
    IF n = 0 THEN {<<>>}
    ELSE Texts(n - 1) \cup { t \o f : t \in Texts(n - 1), f \in Fragments }

EntityLists == { <<"bold">>, <<"bold", "mention">> }

ScoringEnvs ==
    [BOT_TOKEN : {Some(<<120>>)},
     TARGET_CHAT_ID : {None},
     DELETE_CHANNEL_MESSAGES : {Unset},
     AD_SCORE_THRESHOLD : {Unset} \cup { Some(Digit(n)) : n \in 0..MaxThreshold }]

ScoringMessages ==
    { Message(TargetChat, k, u, None, b, e) :
        k \in {TextContent, PhotoContent}, u \in {None, SomeUser},
        b \in Texts(MaxFragments), e \in EntityLists }

InitScoring == InitOf(ScoringEnvs, {TRUE})

handle_scoring_message ==
    /\ handlers = <<>>
    /\ \E message \in ScoringMessages : Dispatch(message)

NextScoring ==
    \/ start_polling
    \/ handle_scoring_message
    \/ resume_is_admin
    \/ resume_safe_delete

SpecScoring == InitScoring /\ [][NextScoring]_vars

(***************************************************************************)
(* SpecAudit: SpecMessage with an audit file that stops or starts being    *)
(* writable (disk full, permissions) at any moment, also while the handler *)
(* is suspended between two write_moderation_log calls.                    *)
(***************************************************************************)
\* LOG_FILE.open("a") of line 43 starts or stops raising
log_writability_changes ==
    /\ cfg # Unset
    /\ log_writable' = ~log_writable
    /\ UNCHANGED <<cfg, main_pc, moderation_enabled, handlers, audit_log, trace>>

NextAudit ==
    \/ check_get_me
    \/ check_get_chat_member
    \/ start_polling
    \/ handle_one_message
    \/ resume_is_admin
    \/ resume_safe_delete
    \/ log_writability_changes

SpecAudit == InitMessage /\ [][NextAudit]_vars

(***************************************************************************)
(* What the properties below read off a state.                             *)
(***************************************************************************)
Ids == 1..Len(handlers)

\* the trace events of kind ev of handler i, in order
EventsFor(i, ev) == SelectSeq(trace, LAMBDA e : e.msg = i /\ e.ev = ev)

DeleteCalls(i) == EventsFor(i, "call_delete")
Decisions(i) == EventsFor(i, "decide")
Lookups(i) == EventsFor(i, "ret_get_chat_member")
Writes(i) == EventsFor(i, "write")
AuditLines(i) == SelectSeq(audit_log, LAMBDA l : l.msg_id = i)

\* handler i has reached its decision: it is at the delete call or has returned
Settled(i) == handlers[i].pc \in {"await_delete", "done"}

\* the message of handler i is one the handler moderates
Moderated(i) ==
    /\ moderation_enabled
    /\ (Cfg.target_chat_id = None \/ handlers[i].message.chat_id = Cfg.target_chat_id)

\* the rules, in the words of the specification
CarriesForbiddenMedia(message) == message.content_type \in {"photo", "video", "document"}

ResolvedAsAdmin(i) ==
    \E k \in 1..Len(Lookups(i)) : Lookups(i)[k].arg \in {"administrator", "creator"}

MediaRuleMatched(i) ==
    /\ CarriesForbiddenMedia(handlers[i].message)
    /\ handlers[i].message.from_user # None
    /\ ~ResolvedAsAdmin(i)

ChannelRuleMatched(i) ==
    Cfg.delete_channel_messages /\ handlers[i].message.sender_chat = "channel"

ScoreRuleMatched(i) ==
    decide(handlers[i].message, Cfg.ad_score_threshold).score >= Cfg.ad_score_threshold

\* the media kind the audit reason names
ExpectedKind(message) ==
    CASE message.content_type = "photo" -> "photo"
      [] message.content_type = "video" -> "video"
      [] message.content_type = "document" /\ message.document = ImageContent.document
            -> "image_document"
      [] message.content_type = "document" /\ message.document # ImageContent.document
            -> "document"
      [] OTHER -> None

\* handler i issued a delete whose reason starts with tag
DeletedFor(i, tag) ==
    \E k \in 1..Len(DeleteCalls(i)) : DeleteCalls(i)[k].arg[1] = tag

(***************************************************************************)
(* C1: a moderated message whose handler has decided got a delete call if  *)
(* and only if a rule matched: the media rule (forbidden media, a known    *)
(* user not resolved as admin), the channel rule (blocking enabled, the    *)
(* sender chat a channel) or the score rule (score >= threshold); with no  *)
(* rule matched there is no delete call.                                   *)
(***************************************************************************)
C1_DeleteIffRuleMatched ==
    \A i \in Ids :
        (Settled(i) /\ Moderated(i)) =>
            ((DeleteCalls(i) # <<>>) <=>
                (MediaRuleMatched(i) \/ ChannelRuleMatched(i) \/ ScoreRuleMatched(i)))

\* a moderated text message was allowed, no rule having matched, under a
\* configuration that blocks channel senders
C1_Witness ==
    \E i \in Ids :
        /\ handlers[i].pc = "done" /\ Moderated(i)
        /\ Cfg.delete_channel_messages
        /\ DeleteCalls(i) = <<>>
        /\ Decisions(i) # <<>>
        /\ handlers[i].message.sender_chat = "supergroup"

(***************************************************************************)
(* C2: media, then sender identity, then ad score, the first match ending  *)
(* the processing: a message the media stage or the sender-identity stage  *)
(* routed to delete was never scored, a message is scored at most once and *)
(* only after its membership lookup returned, and a deleted message        *)
(* carries the reason of the earliest stage that matches it.               *)
(***************************************************************************)
C2_OrderedShortCircuit ==
    \A i \in Ids :
        /\ (DeletedFor(i, "media_non_admin") \/ DeletedFor(i, "channel_sender"))
              => Decisions(i) = <<>>
        /\ Len(Decisions(i)) <= 1
        /\ handlers[i].pc = "await_get_chat_member"
              => (Decisions(i) = <<>> /\ DeleteCalls(i) = <<>>)
        /\ (Settled(i) /\ Moderated(i)) =>
              /\ MediaRuleMatched(i) => DeletedFor(i, "media_non_admin")
              /\ (~MediaRuleMatched(i) /\ ChannelRuleMatched(i))
                    => DeletedFor(i, "channel_sender")
              /\ (~MediaRuleMatched(i) /\ ~ChannelRuleMatched(i))
                    => (Len(Decisions(i)) = 1 /\ ~DeletedFor(i, "media_non_admin")
                        /\ ~DeletedFor(i, "channel_sender"))

\* a channel post with an ad-like text was deleted as channel_sender, unscored
C2_Witness ==
    \E i \in Ids :
        /\ DeletedFor(i, "channel_sender")
        /\ ScoreRuleMatched(i)
        /\ Decisions(i) = <<>>

(***************************************************************************)
(* C3: the media stage deletes, with reason media_non_admin:<kind>,        *)
(* exactly the moderated messages that carry a forbidden media kind from a *)
(* known user not resolved as admin, whatever the text, the sender chat    *)
(* and the flags; forbidden media of an admin or of no user is passed on   *)
(* to the sender-identity and ad-score stages.                             *)
(***************************************************************************)
C3_MediaStage ==
    \A i \in Ids :
        (Settled(i) /\ Moderated(i)) =>
            /\ DeletedFor(i, "media_non_admin") <=> MediaRuleMatched(i)
            /\ MediaRuleMatched(i) =>
                  DeleteCalls(i) =
                      <<[ev |-> "call_delete", msg |-> i,
                         arg |-> <<"media_non_admin", ExpectedKind(handlers[i].message)>>]>>
            /\ (CarriesForbiddenMedia(handlers[i].message) /\ ~MediaRuleMatched(i))
                  => (DeletedFor(i, "channel_sender") \/ Decisions(i) # <<>>)

\* an image document of a non-admin, its caption harmless, deleted as
\* media_non_admin:image_document
C3_Witness ==
    \E i \in Ids :
        /\ DeletedFor(i, "media_non_admin")
        /\ ExpectedKind(handlers[i].message) = "image_document"
        /\ ~ScoreRuleMatched(i)
        /\ handlers[i].message.sender_chat = "supergroup"

(***************************************************************************)
(* C4: fail-closed.  When the membership lookup of the media rule raises,  *)
(* the message is deleted with reason media_non_admin:<kind>.              *)
(***************************************************************************)
LookupFailed(i) ==
    \E k \in 1..Len(Lookups(i)) : Lookups(i)[k].arg = "error"

C4_FailClosed ==
    \A i \in Ids :
        LookupFailed(i) =>
            DeleteCalls(i) =
                <<[ev |-> "call_delete", msg |-> i,
                   arg |-> <<"media_non_admin", ExpectedKind(handlers[i].message)>>]>>

\* the lookup for a photo or a file raised, and the message was deleted
C4_Witness ==
    \E i \in Ids : LookupFailed(i) /\ DeletedFor(i, "media_non_admin")

(***************************************************************************)
(* C5: a message whose sender chat is a supergroup (an anonymous admin) is *)
(* never deleted as channel_sender and gets no channel_sender audit        *)
(* record, with DELETE_CHANNEL_MESSAGES on or off; only a sender chat of   *)
(* type channel is.                                                        *)
(***************************************************************************)
ChannelSenderRecorded(i) ==
    \/ DeletedFor(i, "channel_sender")
    \/ \E k \in 1..Len(Writes(i)) : Writes(i)[k].arg[1] = "channel_sender"
    \/ \E k \in 1..Len(AuditLines(i)) : AuditLines(i)[k].reason = "channel_sender"

C5_AnonymousAdminUntouched ==
    \A i \in Ids :
        /\ handlers[i].message.sender_chat = "supergroup" => ~ChannelSenderRecorded(i)
        /\ ChannelSenderRecorded(i) => handlers[i].message.sender_chat = "channel"

\* an anonymous admin's post went through the sender-identity stage with
\* channel blocking on, and was scored
C5_Witness ==
    \E i \in Ids :
        /\ handlers[i].message.sender_chat = "supergroup"
        /\ Cfg.delete_channel_messages
        /\ Moderated(i)
        /\ handlers[i].pc = "done"
        /\ Decisions(i) # <<>>
        /\ DeleteCalls(i) = <<>>

(***************************************************************************)
(* C6, as stated: with DELETE_CHANNEL_MESSAGES=false a message sent under  *)
(* a channel identity gets no channel_sender delete or audit record and    *)
(* ends without any delete call.                                           *)
(***************************************************************************)
ChannelPostUnblocked(i) ==
    ~Cfg.delete_channel_messages /\ handlers[i].message.sender_chat = "channel"

C6_ChannelPostNeverDeleted ==
    \A i \in Ids :
        ChannelPostUnblocked(i) => (~ChannelSenderRecorded(i) /\ DeleteCalls(i) = <<>>)

(***************************************************************************)
(* C6, amended: with DELETE_CHANNEL_MESSAGES=false the sender-identity     *)
(* stage is skipped for a message sent under a channel identity: it gets   *)
(* no channel_sender delete or audit record, it is scored unless the media *)
(* stage deleted it, and it ends without a delete call unless the media    *)
(* stage or the ad-score stage matches it.                                 *)
(***************************************************************************)
C6_ChannelStageSkipped ==
    \A i \in Ids :
        ChannelPostUnblocked(i) =>
            /\ ~ChannelSenderRecorded(i)
            /\ (Settled(i) /\ Moderated(i)) =>
                  /\ (DeleteCalls(i) # <<>>) <=> (MediaRuleMatched(i) \/ ScoreRuleMatched(i))
                  /\ ~MediaRuleMatched(i) => Len(Decisions(i)) = 1

\* a harmless channel post was allowed with blocking off
C6_Witness ==
    \E i \in Ids :
        /\ ChannelPostUnblocked(i) /\ Moderated(i)
        /\ handlers[i].pc = "done"
        /\ Decisions(i) # <<>>
        /\ DeleteCalls(i) = <<>>

(***************************************************************************)
(* C7: the boundary of the ad-score stage.  For every threshold and every  *)
(* message that reaches the stage, should_delete holds exactly when        *)
(* score >= threshold: a message scoring threshold (or more) is deleted    *)
(* with reason ad_score:<score>, one scoring threshold - 1 (or less) gets  *)
(* no delete call.                                                         *)
(***************************************************************************)
C7_ThresholdBoundary ==
    \A i \in Ids :
        \A k \in 1..Len(Decisions(i)) :
            LET score == Decisions(i)[k].arg[1]
                should_delete == Decisions(i)[k].arg[3]
                threshold == Cfg.ad_score_threshold
            IN  /\ score = decide(handlers[i].message, threshold).score
                /\ should_delete <=> score >= threshold
                /\ score >= threshold =>
                      DeleteCalls(i) = <<[ev |-> "call_delete", msg |-> i,
                                          arg |-> <<"ad_score", score>>]>>
                /\ score <= threshold - 1 => DeleteCalls(i) = <<>>

\* a message scoring exactly a non-default threshold was deleted
C7_Witness ==
    \E i \in Ids :
        /\ Cfg.ad_score_threshold = 3
        /\ Decisions(i) # <<>>
        /\ Decisions(i)[1].arg[1] = 3
        /\ DeletedFor(i, "ad_score")

(***************************************************************************)
(* C8: for a message with no link or contact signal (no url, text_link or  *)
(* mention entity, no match of the link pattern, no contact phrase) the    *)
(* service-offer hits add nothing: no service_offer tag, the score is the  *)
(* sum of the other categories, and a delete by the ad-score stage has     *)
(* that sum at the threshold or above.  A service_offer tag appears only   *)
(* with a signal and a service hit.                                        *)
(***************************************************************************)
ScoredText(message) == _extract_text_and_entities(message)[1]
ScoredEntities(message) == _extract_text_and_entities(message)[2]

LinkOrContactSignal(message) ==
    \/ HasLinkEntity(ScoredEntities(message))
    \/ URL_RE_search(lower(ScoredText(message)))
    \/ HasContactPhrase(lower(ScoredText(message)))

ServiceHits(message) == _count_hits(lower(ScoredText(message)), SERVICE_TRIGGERS)

ScoreWithoutService(message) ==
    (IF _count_hits(lower(ScoredText(message)), TRIGGERS_STRONG) > 0 THEN 2 ELSE 0)
    + (IF _count_hits(lower(ScoredText(message)), TRIGGERS_MONEY) > 0 THEN 1 ELSE 0)
    + (IF _lots_of_emoji_or_caps(ScoredText(message)) THEN 1 ELSE 0)

HasServiceTag(reasons) ==
    \E k \in 1..Len(reasons) : reasons[k][1] = "service_offer"

C8_ServiceNeedsSignal ==
    \A i \in Ids :
        \A k \in 1..Len(Decisions(i)) :
            LET message == handlers[i].message
                score == Decisions(i)[k].arg[1]
                reasons == Decisions(i)[k].arg[2]
            IN  /\ ~LinkOrContactSignal(message) =>
                      /\ ~HasServiceTag(reasons)
                      /\ score = ScoreWithoutService(message)
                      /\ DeletedFor(i, "ad_score")
                            => ScoreWithoutService(message) >= Cfg.ad_score_threshold
                /\ HasServiceTag(reasons) =>
                      (LinkOrContactSignal(message) /\ ServiceHits(message) >= 1)

\* a service offer with no link or contact was scored, and allowed under a
\* threshold that the +2 of the category would have reached
C8_Witness ==
    \E i \in Ids :
        /\ Decisions(i) # <<>>
        /\ ServiceHits(handlers[i].message) >= 1
        /\ ~LinkOrContactSignal(handlers[i].message)
        /\ ScoreWithoutService(handlers[i].message) < Cfg.ad_score_threshold
        /\ ScoreWithoutService(handlers[i].message) + 2 >= Cfg.ad_score_threshold
        /\ handlers[i].pc = "done"
        /\ DeleteCalls(i) = <<>>

(***************************************************************************)
(* C9: when the startup check finds the bot is not an administrator or     *)
(* creator with delete rights, moderation is disabled for good: the check  *)
(* is made once, before any message is handled, the flag is false in every *)
(* state from then on, and no handler makes any call or writes anything.   *)
(***************************************************************************)
CheckFoundNoRights ==
    \E k \in 1..Len(trace) :
        /\ trace[k].ev = "bot_member"
        /\ trace[k].arg # Unset
        /\ \/ trace[k].arg[1].status \notin {"administrator", "creator"}
           \/ trace[k].arg[1].can_delete_messages # "True"

C9_DisabledForGood ==
    /\ handlers # <<>> => main_pc = "polling"
    /\ Cardinality({k \in 1..Len(trace) : trace[k].ev = "bot_member"}) <= 1
    /\ \A k \in 1..Len(trace) : trace[k].msg = 0 => k <= 2
    /\ (main_pc = "polling" /\ Cfg.target_chat_id # None) =>
          (trace # <<>> /\ trace[1].ev = "get_me")
    /\ CheckFoundNoRights =>
          /\ ~moderation_enabled
          /\ \A k \in 1..Len(trace) : trace[k].msg = 0
          /\ audit_log = <<>>
          /\ \A i \in Ids : handlers[i].pc = "done"

\* two messages that the rules match were handled after a failed check
C9_Witness ==
    /\ CheckFoundNoRights
    /\ Len(handlers) >= 2
    /\ \A i \in Ids :
          /\ handlers[i].message.chat_id = Cfg.target_chat_id
          /\ handlers[i].message.content_type = "photo"
          /\ handlers[i].message.from_user # None

(***************************************************************************)
(* C10: a message whose chat is not the configured target chat ends at     *)
(* once with no side effect: no audit record, no membership lookup, no     *)
(* delete call, no scoring.                                                *)
(***************************************************************************)
OutOfScope(i) ==
    Cfg.target_chat_id # None /\ handlers[i].message.chat_id # Cfg.target_chat_id

C10_OutOfScopeNoEffect ==
    \A i \in Ids :
        OutOfScope(i) =>
            /\ handlers[i].pc = "done"
            /\ \A k \in 1..Len(trace) : trace[k].msg # i
            /\ AuditLines(i) = <<>>

\* with moderation enabled, a photo of a user in another chat was ignored
\* while a message of the target chat was deleted
C10_Witness ==
    \E i, j \in Ids :
        /\ OutOfScope(i) /\ moderation_enabled
        /\ handlers[i].message.content_type = "photo"
        /\ handlers[i].message.from_user # None
        /\ handlers[i].message.sender_chat = "channel"
        /\ DeleteCalls(j) # <<>>

(***************************************************************************)
(* C11: a message with a delete decision gets exactly one delete call,     *)
(* never a second one whatever the outcome of the first (ok, forbidden,    *)
(* bad request, any other error), and never one from two stages.           *)
(***************************************************************************)
DetectionReasons == {"media_non_admin", "channel_sender", "ad_detected"}

\* the write_moderation_log calls of handler i that record a delete decision
DetectionWrites(i) ==
    SelectSeq(Writes(i), LAMBDA e : e.arg[1] \in DetectionReasons)

DeleteReturns(i) == EventsFor(i, "ret_delete")

C11_OneDeleteCall ==
    \A i \in Ids :
        /\ Len(DeleteCalls(i)) <= 1
        /\ Len(DetectionWrites(i)) <= 1
        /\ Len(DeleteReturns(i)) <= Len(DeleteCalls(i))
        /\ DetectionWrites(i) # <<>> => Len(DeleteCalls(i)) = 1
        /\ handlers[i].pc = "await_delete"
              => (Len(DeleteCalls(i)) = 1 /\ DeleteReturns(i) = <<>>)
        /\ DeleteReturns(i) # <<>> => handlers[i].pc = "done"

\* two messages were each given one delete call; one call was refused as a
\* bad request, the other failed otherwise, and neither was repeated
C11_Witness ==
    \E i, j \in Ids :
        /\ DeleteReturns(i) # <<>> /\ DeleteReturns(i)[1].arg[1] = "TelegramBadRequest"
        /\ DeleteReturns(j) # <<>> /\ DeleteReturns(j)[1].arg[1] = "Exception"
        /\ Len(DeleteCalls(i)) = 1 /\ Len(DeleteCalls(j)) = 1
        /\ handlers[i].pc = "done" /\ handlers[j].pc = "done"

(***************************************************************************)
(* C12, as stated: every delete call is preceded by the append of the      *)
(* detection record (media_non_admin, channel_sender or ad_detected) of    *)
(* its message, and the record stays in the audit log, which never loses   *)
(* or changes a line.                                                      *)
(***************************************************************************)
\* the audit lines of handler i that record a delete decision
DetectionLines(i) ==
    SelectSeq(AuditLines(i), LAMBDA l : l.reason \in DetectionReasons)

\* the event just before the delete call of handler i is the write of its
\* detection record
WriteBeforeDelete(i) ==
    \A k \in 1..Len(trace) :
        (trace[k].ev = "call_delete" /\ trace[k].msg = i) =>
            /\ k > 1
            /\ trace[k - 1].ev = "write"
            /\ trace[k - 1].msg = i
            /\ trace[k - 1].arg[1] \in DetectionReasons

\* the audit log only grows at its end
AppendOnly ==
    /\ Len(audit_log') >= Len(audit_log)
    /\ SubSeq(audit_log', 1, Len(audit_log)) = audit_log

C12_DetectionRecordAppended ==
    \A i \in Ids :
        DeleteCalls(i) # <<>> => (WriteBeforeDelete(i) /\ Len(DetectionLines(i)) = 1)

(***************************************************************************)
(* C12, amended: the write of the detection record is attempted before the *)
(* delete call; when the append succeeds the record is in the audit log    *)
(* from before the call on, whatever the outcome of the delete; when it    *)
(* fails, the failure is swallowed and the message has no detection        *)
(* record.  No audit line is ever removed or rewritten.                    *)
(***************************************************************************)
C12_DetectionWrittenFirst ==
    /\ [](\A i \in Ids :
            DeleteCalls(i) # <<>> =>
                /\ WriteBeforeDelete(i)
                /\ LET w == DetectionWrites(i)[1]
                   IN  IF w.arg[3]
                       THEN DetectionLines(i) =
                                <<AuditLine(i, handlers[i].message, w.arg[1], w.arg[2])>>
                       ELSE DetectionLines(i) = <<>>)
    /\ [][AppendOnly]_vars

\* a detection record is in the log after the delete of its message was refused
C12_Witness ==
    \E i \in Ids :
        /\ Len(DetectionLines(i)) = 1
        /\ DeleteReturns(i) # <<>>
        /\ DeleteReturns(i)[1].arg[1] = "TelegramForbiddenError"
        /\ handlers[i].pc = "done"

(***************************************************************************)
(* C13: every delete attempt that has ended is recorded in the audit log   *)
(* with its outcome: a record with success=true and the reason code after  *)
(* a successful delete, a separate record with success=false after a       *)
(* failed one, beside the detection record.                                *)
(***************************************************************************)
\* the audit lines of handler i that record the outcome of a delete attempt
OutcomeLines(i) ==
    SelectSeq(AuditLines(i), LAMBDA l : l.extra # <<>> /\ l.extra[1] = "success")

C13_DeleteOutcomeRecorded ==
    \A i \in Ids :
        (log_writable /\ DeleteReturns(i) # <<>>) =>
            /\ Len(OutcomeLines(i)) = 1
            /\ OutcomeLines(i)[1].extra[2] = DeleteReturns(i)[1].arg[2]
            /\ ~DeleteReturns(i)[1].arg[2] =>
                  (Len(DetectionLines(i)) = 1 /\ Len(AuditLines(i)) >= 2)

(***************************************************************************)
(* C14: a moderated message that has been processed leaves exactly one     *)
(* audit record for its terminal decision: one record when it is allowed,  *)
(* one when its delete succeeds, and never two detection records.          *)
(***************************************************************************)
\* the delete of handler i's message has succeeded
DeleteSucceeded(i) ==
    DeleteReturns(i) # <<>> /\ DeleteReturns(i)[1].arg[2]

C14_OneRecordPerDecision ==
    \A i \in Ids :
        (log_writable /\ Moderated(i) /\ handlers[i].pc = "done") =>
            /\ DeleteCalls(i) = <<>> => Len(AuditLines(i)) = 1
            /\ DeleteSucceeded(i) => Len(AuditLines(i)) = 1
            /\ Len(DetectionLines(i)) <= 1

(***************************************************************************)
(* C15: a failed append to the audit file is swallowed and changes nothing *)
(* else.  Whether or not moderation_log.txt can be written, a moderated    *)
(* message gets the membership lookup, the scoring and the delete call     *)
(* that its content, the configuration and the lookup's answer determine;  *)
(* a failed append only leaves the line out.                               *)
(***************************************************************************)
\* the reason of the delete call the rules ask for; <<>> when they ask for none
ExpectedDeleteReason(i) ==
    IF MediaRuleMatched(i)
    THEN <<"media_non_admin", ExpectedKind(handlers[i].message)>>
    ELSE IF ChannelRuleMatched(i) THEN <<"channel_sender">>
    ELSE IF ScoreRuleMatched(i)
    THEN <<"ad_score", decide(handlers[i].message, Cfg.ad_score_threshold).score>>
    ELSE <<>>

\* the write_moderation_log calls of handler i whose append failed
FailedWrites(i) == SelectSeq(Writes(i), LAMBDA e : ~e.arg[3])

\* those whose append succeeded
AppendedWrites(i) == SelectSeq(Writes(i), LAMBDA e : e.arg[3])

C15_WriteFailureHarmless ==
    \A i \in Ids :
        /\ AuditLines(i) =
              [k \in 1..Len(AppendedWrites(i)) |->
                  AuditLine(i, handlers[i].message,
                            AppendedWrites(i)[k].arg[1], AppendedWrites(i)[k].arg[2])]
        /\ (Settled(i) /\ Moderated(i)) =>
              /\ Len(Lookups(i)) =
                    (IF CarriesForbiddenMedia(handlers[i].message)
                        /\ handlers[i].message.from_user # None THEN 1 ELSE 0)
              /\ Len(Decisions(i)) =
                    (IF ~MediaRuleMatched(i) /\ ~ChannelRuleMatched(i) THEN 1 ELSE 0)
              /\ DeleteCalls(i) =
                    (IF ExpectedDeleteReason(i) = <<>> THEN <<>>
                     ELSE <<[ev |-> "call_delete", msg |-> i,
                             arg |-> ExpectedDeleteReason(i)]>>)

\* the media_detected record of a photo was appended, the append of its
\* media_non_admin record failed after the lookup, and the delete call was
\* made and answered all the same
C15_Witness ==
    \E i \in Ids :
        /\ Len(AppendedWrites(i)) = 1
        /\ Len(FailedWrites(i)) = 1
        /\ FailedWrites(i)[1].arg[1] = "media_non_admin"
        /\ Len(Lookups(i)) = 1
        /\ DeletedFor(i, "media_non_admin")
        /\ DeleteReturns(i) # <<>>
        /\ handlers[i].pc = "done"
        /\ Len(audit_log) = 1

(***************************************************************************)
(* C16: with handlers interleaving at the membership lookup and at the     *)
(* delete call, the audit log consists of whole records only: its lines    *)
(* are, in the order of the write_moderation_log calls that succeeded, the *)
(* complete line of each call, every field of a line being of the one      *)
(* message the line is about.                                              *)
(***************************************************************************)
\* the write_moderation_log calls that appended, of all handlers, in order
SuccessfulWrites == SelectSeq(trace, LAMBDA e : e.ev = "write" /\ e.arg[3])

C16_WholeLines ==
    /\ Len(audit_log) = Len(SuccessfulWrites)
    /\ \A k \in 1..Len(audit_log) :
          LET e == SuccessfulWrites[k]
              message == handlers[e.msg].message
          IN  /\ audit_log[k].msg_id = e.msg
              /\ audit_log[k].chat_id = message.chat_id
              /\ audit_log[k].user_id = message.from_user
              /\ audit_log[k].sender_chat_type = message.sender_chat
              /\ audit_log[k].reason = e.arg[1]
              /\ audit_log[k].extra = e.arg[2]
              /\ audit_log[k].text = AuditText(message)

\* the handler of a second message wrote its record while the handler of a
\* photo was suspended between its two records
C16_Witness ==
    /\ Len(audit_log) = 3
    /\ audit_log[1].msg_id = 1 /\ audit_log[1].reason = "media_detected"
    /\ audit_log[2].msg_id = 2
    /\ audit_log[3].msg_id = 1 /\ audit_log[3].reason = "media_non_admin"
    /\ handlers[1].message # handlers[2].message

(***************************************************************************)
(* C17: with a target chat configured, when the startup check cannot be    *)
(* made (get_me or the bot's own membership lookup raises), the process    *)
(* does not enter the polling loop; polling begins only after a startup    *)
(* that was completed.                                                     *)
(***************************************************************************)
\* get_me, or the lookup of the bot's own membership, raised
CheckImpossible ==
    \E k \in 1..Len(trace) :
        \/ trace[k].ev = "get_me" /\ ~trace[k].arg[1]
        \/ trace[k].ev = "bot_member" /\ trace[k].arg = Unset

C17_NoPollingAfterImpossibleCheck ==
    /\ (cfg # Unset /\ Cfg.target_chat_id # None /\ CheckImpossible)
          => main_pc # "polling"
    /\ (main_pc = "polling" /\ Cfg.target_chat_id # None) =>
          \E k \in 1..Len(trace) : trace[k].ev = "bot_member" /\ trace[k].arg # Unset

(***************************************************************************)
(* C18: _is_admin makes one membership lookup per call, and what it        *)
(* returns for a lookup that raised differs from what it returns for a     *)
(* member who is neither administrator nor creator.                        *)
(***************************************************************************)
LookupCalls(i) == EventsFor(i, "call_get_chat_member")

C18_FailureSurfacedDistinctly ==
    \A i \in Ids :
        /\ Len(LookupCalls(i)) <= 1
        /\ Len(Lookups(i)) <= Len(LookupCalls(i))
        /\ LookupFailed(i) => _is_admin(Lookups(i)[1].arg) # _is_admin("member")

(***************************************************************************)
(* C19: the stylistic heuristic adds +1, with the tag emoji_or_caps, for   *)
(* every text with at least 4 pictographic emoji, whatever its letters     *)
(* (none at all included), and for every text whose uppercase letters are  *)
(* at least 0.6 of its letters; otherwise it adds nothing, and it adds +1  *)
(* once when both hold.                                                    *)
(***************************************************************************)
EmojiIn(text) == Cardinality({k \in 1..Len(text) : IsEmoji(text[k])})
LettersIn(text) == Cardinality({k \in 1..Len(text) : isalpha(text[k])})
UpperIn(text) == Cardinality({k \in 1..Len(text) : isalpha(text[k]) /\ isupper(text[k])})

ManyEmoji(text) == EmojiIn(text) >= 4
MostlyCaps(text) == LettersIn(text) > 0 /\ 10 * UpperIn(text) >= 6 * LettersIn(text)

StyleTags(reasons) == SelectSeq(reasons, LAMBDA r : r[1] = "emoji_or_caps")

\* the score of the keyword categories, from the tags of the reasons list
KeywordScore(reasons) ==
    (IF \E k \in 1..Len(reasons) : reasons[k][1] = "strong_ads" THEN 2 ELSE 0)
    + (IF \E k \in 1..Len(reasons) : reasons[k][1] = "money_ads" THEN 1 ELSE 0)
    + (IF HasServiceTag(reasons) THEN 2 ELSE 0)

C19_StyleHeuristic ==
    \A i \in Ids :
        \A k \in 1..Len(Decisions(i)) :
            LET text == ScoredText(handlers[i].message)
                score == Decisions(i)[k].arg[1]
                reasons == Decisions(i)[k].arg[2]
                styled == ManyEmoji(text) \/ MostlyCaps(text)
            IN  /\ Len(StyleTags(reasons)) = (IF styled THEN 1 ELSE 0)
                /\ score = KeywordScore(reasons) + (IF styled THEN 1 ELSE 0)

(***************************************************************************)
(* C20: decide's score is 2 for one or more strong keywords, plus 1 for    *)
(* one or more money keywords, plus 2 for one or more service keywords     *)
(* together with a link or contact, plus 1 when the stylistic heuristic    *)
(* (_lots_of_emoji_or_caps, as it answers) fires: each weight once, so the *)
(* score is within 0..6.  The reasons are one tag per contributing rule,   *)
(* in the order strong_ads, money_ads, service_offer, emoji_or_caps, a     *)
(* keyword tag carrying the number of distinct keywords of its category in *)
(* the text; the list is empty exactly when the score is 0.                *)
(***************************************************************************)
\* the distinct keywords of a category that occur in the lower-cased text
KeywordsFound(message, phrases) ==
    { phrases[n] : n \in { n \in 1..Len(phrases) :
                             Contains(lower(ScoredText(message)), phrases[n]) } }

ExpectedReasons(message) ==
    LET strong == Cardinality(KeywordsFound(message, TRIGGERS_STRONG))
        money == Cardinality(KeywordsFound(message, TRIGGERS_MONEY))
        service == Cardinality(KeywordsFound(message, SERVICE_TRIGGERS))
    IN  (IF strong >= 1 THEN << <<"strong_ads", strong>> >> ELSE <<>>)
        \o (IF money >= 1 THEN << <<"money_ads", money>> >> ELSE <<>>)
        \o (IF service >= 1 /\ LinkOrContactSignal(message)
            THEN << <<"service_offer", service>> >> ELSE <<>>)
        \o (IF _lots_of_emoji_or_caps(ScoredText(message))
            THEN << <<"emoji_or_caps">> >> ELSE <<>>)

C20_ScoreAndReasons ==
    \A i \in Ids :
        \A k \in 1..Len(Decisions(i)) :
            LET message == handlers[i].message
                score == Decisions(i)[k].arg[1]
                reasons == Decisions(i)[k].arg[2]
            IN  /\ reasons = ExpectedReasons(message)
                /\ score = KeywordScore(reasons) + Len(StyleTags(reasons))
                /\ score \in 0..6
                /\ (reasons = <<>>) <=> (score = 0)

\* two strong keywords weighed once, and a text that every rule contributes to
C20_Witness ==
    \E i \in Ids :
        /\ Decisions(i) # <<>>
        /\ Decisions(i)[1].arg[1] = 6
        /\ Len(Decisions(i)[1].arg[2]) = 4
        /\ Cardinality(KeywordsFound(handlers[i].message, TRIGGERS_STRONG)) = 2

=============================================================================
